---------------------------- MODULE Spec2Model ----------------------------
(***************************************************************************)
(* A model of automate_email_sending.py: the address validator, the        *)
(* recipient loader, the configuration store, the mail dispatcher and      *)
(* composer, the logger with its process-wide notice latches, the          *)
(* end-to-end main operation and the daily trigger.                        *)
(*                                                                         *)
(* A Python str is a sequence of one-character strings, so that strip()    *)
(* and the regular expression are computed character by character.  The    *)
(* Python functions are operators that take and return the part of the     *)
(* process state they touch (the logger state `io`, the SMTP/compose       *)
(* `trace`); the actions below apply them to the variables.                *)
(***************************************************************************)
EXTENDS Naturals, Sequences, FiniteSets

VARIABLES
    warning_flag,   \* module global warning_flag
    error_flag,     \* module global error_flag
    log,            \* the records appended to Logs.log, oldest first
    console,        \* the lines printed on the console, oldest first
    trace,          \* what the dispatcher did: connect, login, compose, sendmail, quit
    config_file,    \* Config/config.json
    call,           \* the last operation invoked: its inputs, its result, the state before
    sched           \* my_scheduled_task: the job, the clock and the loop's position

vars == <<warning_flag, error_flag, log, console, trace, config_file, call, sched>>

---------------------------------------------------------------------------
(* Bounds of the model. *)

MaxLines == 3       \* lines in a recipients file
MaxLog == 4         \* logger calls in one behaviour of SpecLogger
MaxRecipients == 3  \* recipients handed to send_email
MaxRuns == 2        \* invocations of main in one process
MaxDays == 2        \* calendar days the trigger's clock is followed over

---------------------------------------------------------------------------
(* Python values. *)

\* None where a str could be: no str holds a four-character element.
None == <<"None">>

\* bool(v) of a str or None
Truthy(v) == v # None /\ v # <<>>

Min(S) == CHOOSE x \in S : \A y \in S : x <= y
Max(S) == CHOOSE x \in S : \A y \in S : x >= y

\* the characters \w matches, among those the model's strings use
WordChars == {"a", "b", "c", "d", "e", "i", "m", "o", "s", "t", "_", "1"}
\* the characters str.strip() removes
SpaceChars == {" ", "\t", "\n", "\r"}

IsWord(c) == c \in WordChars
\* [\w\.-]
InClass(c) == IsWord(c) \/ c = "." \/ c = "-"

\* str.strip()
strip(s) ==
    LET keep == {i \in 1..Len(s) : s[i] \notin SpaceChars}
    IN  IF keep = {} THEN <<>> ELSE SubSeq(s, Min(keep), Max(keep))

\* \w{2,3}
TldMin == 2
TldMax == 3

\* re.match(r'^[\w\.-]+@[\w\.-]+\.\w{2,3}$', s): $ also matches before one final newline
ReMatch(s) ==
    LET n == IF Len(s) > 0 /\ s[Len(s)] = "\n" THEN Len(s) - 1 ELSE Len(s)
    IN  \E at \in 2..n : \E dot \in 3..n :
            /\ s[at] = "@"
            /\ s[dot] = "."
            /\ dot > at + 1
            /\ \A i \in 1..(at - 1) : InClass(s[i])
            /\ \A i \in (at + 1)..(dot - 1) : InClass(s[i])
            /\ n - dot >= TldMin
            /\ n - dot <= TldMax
            /\ \A i \in (dot + 1)..n : IsWord(s[i])

check_email_format(email_address) ==
    IF ReMatch(email_address) THEN email_address ELSE None

---------------------------------------------------------------------------
(* The logger.  io is [warning_flag, error_flag, log, console]. *)

WarningNotice == "Warning: Invalid email address(es) found, check Logs.log for more info."
ErrorNotice == "Error(s) occured, please check Logs.log for more details."

Record(level, text, arg) == [level |-> level, text |-> text, arg |-> arg]

\* log_warning leaving its latch set
log_warning_unlatched(io, text, arg) ==
    [io EXCEPT !.console = IF io.warning_flag THEN Append(@, WarningNotice) ELSE @,
               !.log = Append(@, Record("WARNING", text, arg))]

log_warning(io, text, arg) ==
    [io EXCEPT !.console = IF io.warning_flag THEN Append(@, WarningNotice) ELSE @,
               !.warning_flag = FALSE,
               !.log = Append(@, Record("WARNING", text, arg))]

log_error(io, text, arg) ==
    [io EXCEPT !.console = IF io.error_flag THEN Append(@, ErrorNotice) ELSE @,
               !.error_flag = FALSE,
               !.log = Append(@, Record("ERROR", text, arg))]

log_success(io, text, arg) ==
    [io EXCEPT !.log = Append(@, Record("INFO", text, arg))]

\* the logger state held by the variables, and its write-back
IO == [warning_flag |-> warning_flag, error_flag |-> error_flag,
       log |-> log, console |-> console]

SetIO(io) ==
    /\ warning_flag' = io.warning_flag
    /\ error_flag' = io.error_flag
    /\ log' = io.log
    /\ console' = io.console

---------------------------------------------------------------------------
(* The recipient loader. *)

\* A recipients file: absent (open raises FileNotFoundError), present but
\* unreadable (open raises another OSError), or its lines.
NoFile == [exists |-> FALSE, readable |-> FALSE, lines |-> <<>>]
LockedFile == [exists |-> TRUE, readable |-> FALSE, lines |-> <<>>]
TextFile(lines) == [exists |-> TRUE, readable |-> TRUE, lines |-> lines]

RECURSIVE read_lines_unstripped(_, _, _, _)
\* read_lines validating the line as read, without strip()
read_lines_unstripped(lines, i, recipient_addresses, io) ==
    IF i > Len(lines) THEN <<recipient_addresses, io>>
    ELSE LET recipient == check_email_format(lines[i])
         IN  IF Truthy(recipient)
             THEN read_lines_unstripped(lines, i + 1,
                                        Append(recipient_addresses, recipient), io)
             ELSE read_lines_unstripped(lines, i + 1, recipient_addresses,
                                        log_warning(io, "Invalid email", strip(lines[i])))

RECURSIVE read_lines(_, _, _, _)
\* the for loop of get_recipients over lines[i..]: <<recipient_addresses, io>>
read_lines(lines, i, recipient_addresses, io) ==
    IF i > Len(lines) THEN <<recipient_addresses, io>>
    ELSE LET recipient == check_email_format(strip(lines[i]))
         IN  IF Truthy(recipient)
             THEN read_lines(lines, i + 1, Append(recipient_addresses, recipient), io)
             ELSE read_lines(lines, i + 1, recipient_addresses,
                             log_warning(io, "Invalid email", strip(lines[i])))

\* get_recipients without the check that the list is not empty
get_recipients_unchecked(file, io) ==
    IF ~file.exists
    THEN [none |-> TRUE, list |-> <<>>,
          io |-> log_error(io, "Recipients file not found", <<>>)]
    ELSE IF ~file.readable
    THEN [none |-> TRUE, list |-> <<>>, io |-> log_error(io, "OSError", <<>>)]
    ELSE LET r == read_lines(file.lines, 1, <<>>, io)
         IN  [none |-> FALSE, list |-> r[1], io |-> r[2]]

\* get_recipients(filename), the file being what filename names:
\* [none |-> the result is None, list |-> the list returned, io |-> the logger after]
get_recipients(file, io) ==
    IF ~file.exists
    THEN [none |-> TRUE, list |-> <<>>,
          io |-> log_error(io, "Recipients file not found", <<>>)]
    ELSE IF ~file.readable
    THEN [none |-> TRUE, list |-> <<>>, io |-> log_error(io, "OSError", <<>>)]
    ELSE LET r == read_lines(file.lines, 1, <<>>, io)
         IN  IF r[1] = <<>>
             THEN [none |-> TRUE, list |-> <<>>,
                   io |-> log_error(r[2], "No valid email address(es) found", <<>>)]
             ELSE [none |-> FALSE, list |-> r[1], io |-> r[2]]


---------------------------------------------------------------------------
(* The state after construction, and the loader run on its own. *)

NoCall == [op |-> "none"]

NoConfigFile == [exists |-> FALSE, writable |-> TRUE, corrupt |-> FALSE, text |-> <<>>]

NotScheduled == [pc |-> "not_started", day |-> 0, minute |-> 0, next_run |-> <<0, 0>>,
                 ended_by |-> "none"]

Init ==
    /\ warning_flag = TRUE
    /\ error_flag = TRUE
    /\ log = <<>>
    /\ console = <<>>
    /\ trace = <<>>
    /\ config_file = NoConfigFile
    /\ call = NoCall
    /\ sched = NotScheduled

\* lines a recipients file may hold, as read (before strip)
RawLines ==
    { <<"a", "@", "t", "e", "s", "t", ".", "c", "o", "m">>,
      <<" ", "b", "@", "t", "e", "s", "t", ".", "c", "o", "\n">>,
      <<"b", "a", "d", "-", "a", "d", "d", "r", "e", "s", "s">>,
      <<" ", "\n">> }

RECURSIVE SeqsUpTo(_, _)
SeqsUpTo(S, n) ==
    IF n = 0 THEN {<<>>}
    ELSE LET shorter == SeqsUpTo(S, n - 1)
         IN  shorter \cup {Append(q, x) : q \in {t \in shorter : Len(t) = n - 1}, x \in S}

RecipientFiles ==
    {NoFile, LockedFile} \cup {TextFile(ls) : ls \in SeqsUpTo(RawLines, MaxLines)}

\* the loader is run a second time only while the log is short
MaxPriorLog == 2

GetRecipients ==
    /\ Len(log) < MaxPriorLog
    /\ IF call.op = "none" THEN TRUE ELSE call.before.log = <<>>
    /\ \E file \in RecipientFiles :
          LET r == get_recipients(file, IO)
          IN  /\ SetIO(r.io)
              /\ call' = [op |-> "get_recipients", file |-> file, before |-> IO,
                          none |-> r.none, list |-> r.list]
    /\ UNCHANGED <<trace, config_file, sched>>

NextLoader == GetRecipients

SpecLoader == Init /\ [][NextLoader]_vars

\* the records a call appended to the log
Appended == SubSeq(log, Len(call.before.log) + 1, Len(log))

LevelCount(records, level) == Cardinality({i \in 1..Len(records) : records[i].level = level})

PassesFormat(s) == check_email_format(s) # None

Stripped(lines) == [i \in 1..Len(lines) |-> strip(lines[i])]

\* C1: get_recipients on a readable file of N lines of which K >= 1 pass
\* check_email_format after trimming returns exactly those K trimmed addresses
\* in file order, duplicates kept, and logs N-K warnings, one per invalid line
\* in file order, and no error.
C1_LoaderKeepsValidInOrder ==
    (/\ call.op = "get_recipients"
     /\ call.file.exists /\ call.file.readable
     /\ \E i \in 1..Len(call.file.lines) : PassesFormat(strip(call.file.lines[i])))
    => LET trimmed == Stripped(call.file.lines)
           valid == SelectSeq(trimmed, PassesFormat)
           invalid == SelectSeq(trimmed, LAMBDA s : ~PassesFormat(s))
       IN  /\ ~call.none
           /\ call.list = valid
           /\ Len(Appended) = Len(trimmed) - Len(valid)
           /\ Appended = [i \in 1..Len(invalid) |->
                             Record("WARNING", "Invalid email", invalid[i])]
           /\ SubSeq(log, 1, Len(call.before.log)) = call.before.log

\* a three-line file with a duplicate valid line that needs trimming and one
\* invalid line, loaded after the warning latch was already cleared
C1_Witness ==
    /\ call.op = "get_recipients"
    /\ ~call.before.warning_flag
    /\ Len(call.file.lines) = 3
    /\ call.file.lines[1] = call.file.lines[3]
    /\ call.file.lines[1] # strip(call.file.lines[1])
    /\ ~PassesFormat(strip(call.file.lines[2]))
    /\ Len(call.list) = 2
    /\ LevelCount(Appended, "WARNING") = 1

\* C2: get_recipients returns either a non-empty list or None, never an empty
\* list as a success; an absent file, an empty file and an all-invalid file
\* each yield None with exactly one error logged.
C2_LoaderNonEmptyOrNone ==
    call.op = "get_recipients"
    => /\ call.none \/ call.list # <<>>
       /\ call.none => call.list = <<>>
       /\ ~call.none => \A i \in 1..Len(call.list) : PassesFormat(call.list[i])
       /\ (\/ ~call.file.exists
           \/ /\ call.file.readable
              /\ \A i \in 1..Len(call.file.lines) :
                    ~PassesFormat(strip(call.file.lines[i])))
          => /\ call.none
             /\ LevelCount(Appended, "ERROR") = 1
             /\ Appended[Len(Appended)].level = "ERROR"

\* an all-invalid file of two lines: two warnings, one error, None
C2_Witness ==
    /\ call.op = "get_recipients"
    /\ call.file.readable
    /\ Len(call.file.lines) = 2
    /\ call.none
    /\ LevelCount(Appended, "WARNING") = 2
    /\ LevelCount(Appended, "ERROR") = 1

---------------------------------------------------------------------------
(* The mail composer and the mail dispatcher. *)

\* An attachment path is a sequence of path components: <<>> is '', and None
\* is what config.get('attachment_path') gives when the key is absent.
basename(path) == IF path = <<>> THEN "" ELSE path[Len(path)]

NoMsg == [From |-> <<>>, To |-> <<>>, Subject |-> "", body |-> "", attachment |-> ""]

\* compose_email; attachment_file is what the path names at this moment:
\* "exists", "unreadable" (exists, open raises an OSError) or "missing".
\* [raised |-> the exception it ends with or "", msg |-> the message returned]
compose_email(email_address, recipient_address, subject, message, attachment_path, attachment_file) ==
    LET msg == [From |-> email_address, To |-> recipient_address,
                Subject |-> subject, body |-> message, attachment |-> ""]
    IN  IF attachment_path = None
        THEN [raised |-> "TypeError", msg |-> NoMsg]
        ELSE IF attachment_path # <<>> /\ attachment_file = "exists"
        THEN [raised |-> "",
              msg |-> [msg EXCEPT !.attachment = basename(attachment_path)]]
        ELSE IF attachment_path # <<>> /\ attachment_file = "unreadable"
        THEN [raised |-> "OSError", msg |-> NoMsg]
        ELSE IF attachment_path # <<>>
        THEN [raised |-> "FileExistsError", msg |-> NoMsg]
        ELSE [raised |-> "", msg |-> msg]

Event(ev, arg) == [ev |-> ev, arg |-> arg]

RECURSIVE send_loop_isolated(_, _, _, _, _, _, _, _, _)
\* send_loop going on with the next recipient after one fails to compose
send_loop_isolated(i, sender_address, recipient_addresses, subject, message, attachment_path, env, io, tr) ==
    IF i > Len(recipient_addresses) THEN [raised |-> "", io |-> io, trace |-> tr]
    ELSE LET recipient_address == recipient_addresses[i]
             c == compose_email(sender_address, recipient_address, subject, message,
                                attachment_path, env.attachment[i])
             composing == Append(tr, Event("compose", recipient_address))
         IN  IF c.raised # ""
             THEN [send_loop_isolated(i + 1, sender_address, recipient_addresses, subject,
                                      message, attachment_path, env, io, composing)
                   EXCEPT !.raised = c.raised]
             ELSE send_loop_isolated(i + 1, sender_address, recipient_addresses, subject,
                                     message, attachment_path, env,
                                     log_success(io, "Successfully sent email",
                                                 strip(recipient_address)),
                                     composing)

RECURSIVE send_loop(_, _, _, _, _, _, _, _, _)
\* the for loop of send_email from the i-th recipient on:
\* [raised |-> the exception that ended it or "", io, trace]
send_loop(i, sender_address, recipient_addresses, subject, message, attachment_path, env, io, tr) ==
    IF i > Len(recipient_addresses) THEN [raised |-> "", io |-> io, trace |-> tr]
    ELSE LET recipient_address == recipient_addresses[i]
             c == compose_email(sender_address, recipient_address, subject, message,
                                attachment_path, env.attachment[i])
             composing == Append(tr, Event("compose", recipient_address))
         IN  IF c.raised # ""
             THEN [raised |-> c.raised, io |-> io, trace |-> composing]
             ELSE \* gmail_server.sendmail(...) is commented out: nothing is submitted
                  send_loop(i + 1, sender_address, recipient_addresses, subject, message,
                            attachment_path, env,
                            log_success(io, "Successfully sent email", strip(recipient_address)),
                            composing)

\* What the network and the file system do during one send_email call:
\* [connect |-> SMTP_SSL() succeeds, login |-> login() succeeds,
\*  attachment |-> what the attachment path names when each recipient is composed].
\* send_session is send_email after the sender's format check: the SMTP_SSL
\* session and the handlers of what is raised in it.
\* [result |-> "True", "False" or "None" (no return statement reached), io, trace]
send_session(sender_address, sender_password, recipient_addresses, subject, message, attachment_path, env, io, tr) ==
    IF ~env.connect
    THEN [result |-> "False", trace |-> Append(tr, Event("connect_failed", <<>>)),
          io |-> log_error(io, "OSError", <<>>)]
    ELSE IF ~env.login
    THEN [result |-> "False",
          trace |-> tr \o <<Event("connect", <<>>), Event("login_failed", sender_address),
                            Event("quit", <<>>)>>,
          io |-> log_error(io, "SMTPAuthenticationError", <<>>)]
    ELSE LET l == send_loop(1, sender_address, recipient_addresses, subject, message,
                            attachment_path, env, io,
                            tr \o <<Event("connect", <<>>), Event("login", sender_address)>>)
             closed == Append(l.trace, Event("quit", <<>>))
         IN  IF l.raised = ""
             THEN [result |-> "True", trace |-> closed, io |-> l.io]
             ELSE IF l.raised = "FileExistsError"
             THEN [result |-> "None", trace |-> closed,
                   io |-> log_error(l.io, "Attachment file not found", <<>>)]
             ELSE [result |-> "False", trace |-> closed,
                   io |-> log_error(l.io, l.raised, <<>>)]

\* send_email checking the sender's format only after the session
send_email_late_check(sender_address, sender_password, recipient_addresses, subject, message, attachment_path, env, io, tr) ==
    LET s == send_session(sender_address, sender_password, recipient_addresses, subject,
                          message, attachment_path, env, io, tr)
    IN  IF ~Truthy(check_email_format(sender_address))
        THEN [result |-> "False", trace |-> s.trace,
              io |-> log_error(io, "Invalid gmail address format", sender_address)]
        ELSE s

send_email(sender_address, sender_password, recipient_addresses, subject, message, attachment_path, env, io, tr) ==
    IF ~Truthy(check_email_format(sender_address))
    THEN [result |-> "False", trace |-> tr,
          io |-> log_error(io, "Invalid gmail address format", sender_address)]
    ELSE send_session(sender_address, sender_password, recipient_addresses, subject,
                      message, attachment_path, env, io, tr)

\* sender addresses the configuration may hold: a valid one, a malformed one, ''
Senders ==
    { <<"m", "e", "@", "t", "e", "s", "t", ".", "c", "o", "m">>,
      <<"m", "e", "-", "a", "t", "-", "t", "e", "s", "t">>,
      <<>> }

\* the addresses of RawLines that pass the validator, trimmed
ValidAddresses ==
    { <<"a", "@", "t", "e", "s", "t", ".", "c", "o", "m">>,
      <<"b", "@", "t", "e", "s", "t", ".", "c", "o">> }

AttachmentPaths == { <<>>, None, <<"docs", "report.pdf">> }

AttachmentStates == {"exists", "unreadable", "missing"}

Envs(n) == [connect : BOOLEAN, login : BOOLEAN, attachment : [1..n -> AttachmentStates]]

SendEmail ==
    /\ call.op = "none"
    /\ \E sender_address \in Senders :
       \E recipient_addresses \in SeqsUpTo(ValidAddresses, MaxRecipients) \ {<<>>} :
       \E attachment_path \in AttachmentPaths :
       \E env \in Envs(Len(recipient_addresses)) :
          LET r == send_email(sender_address, "secret", recipient_addresses, "subject",
                              "message", attachment_path, env, IO, trace)
          IN  /\ SetIO(r.io)
              /\ trace' = r.trace
              /\ call' = [op |-> "send_email", sender |-> sender_address,
                          recipients |-> recipient_addresses,
                          attachment_path |-> attachment_path, env |-> env,
                          before |-> IO, trace_before |-> trace, result |-> r.result]
    /\ UNCHANGED <<config_file, sched>>

NextSend == SendEmail

SpecSend == Init /\ [][NextSend]_vars

\* what a call added to the trace
Done == SubSeq(trace, Len(call.trace_before) + 1, Len(trace))

Events(tr, ev) == SelectSeq(tr, LAMBDA e : e.ev = ev)
Args(tr) == [i \in 1..Len(tr) |-> tr[i].arg]
Level(records, level) == SelectSeq(records, LAMBDA r : r.level = level)

\* the first recipient whose composition raises, 0 when none does
FirstFailure(attachment_path, env, n) ==
    LET failing == {i \in 1..n : \/ attachment_path = None
                                 \/ /\ attachment_path # <<>>
                                    /\ env.attachment[i] # "exists"}
    IN  IF failing = {} THEN 0 ELSE Min(failing)

\* the call reached the loop over the recipients
InLoop ==
    /\ call.op = "send_email"
    /\ PassesFormat(call.sender)
    /\ call.env.connect
    /\ call.env.login

\* C3: in a send_email run that returns true for n recipients, one session is
\* opened, login happens exactly once and before any message, and exactly n
\* messages are submitted to the session, one per recipient in list order, so
\* that every success record is for a message submitted.
C3_OneSubmissionPerRecipient ==
    (call.op = "send_email" /\ call.result = "True")
    => /\ Len(Events(Done, "connect")) = 1
       /\ Len(Events(Done, "login")) = 1
       /\ Done[2].ev = "login"
       /\ Args(Events(Done, "sendmail")) = call.recipients
       /\ Args(Level(Appended, "INFO")) = Args(Events(Done, "sendmail"))

\* C4: send_email returns a boolean: true exactly when nothing raised, false
\* for every failure, a missing attachment raised by compose_email included.
C4_ResultIsBoolean ==
    call.op = "send_email"
    => /\ call.result \in {"True", "False"}
       /\ call.result = "True"
          <=> /\ InLoop
              /\ FirstFailure(call.attachment_path, call.env, Len(call.recipients)) = 0

\* C5: when the sender address fails check_email_format, send_email opens no
\* connection, attempts no login, composes no message, logs no success record,
\* logs exactly one error and returns False.
C5_MalformedSenderFailsFast ==
    (call.op = "send_email" /\ ~PassesFormat(call.sender))
    => /\ Done = <<>>
       /\ Len(Appended) = 1
       /\ Appended[1] = Record("ERROR", "Invalid gmail address format", call.sender)
       /\ call.result = "False"

\* a malformed sender, three recipients, and a network and an attachment
\* that would have let the session through
C5_Witness ==
    /\ call.op = "send_email"
    /\ call.sender # <<>>
    /\ ~PassesFormat(call.sender)
    /\ Len(call.recipients) = 3
    /\ call.env.connect /\ call.env.login
    /\ \A i \in 1..3 : call.env.attachment[i] = "exists"
    /\ call.result = "False"

\* C10: if composing the message for the i-th recipient raises, no recipient
\* after the i-th is composed or given a success record, the success records
\* of the recipients before the i-th are in the log, exactly one error is
\* logged, after them, and the result is not True.
C10_FailureAbortsLoop ==
    InLoop
    => LET n == Len(call.recipients)
           i == FirstFailure(call.attachment_path, call.env, n)
       IN  i > 0
           => /\ Args(Events(Done, "compose")) = SubSeq(call.recipients, 1, i)
              /\ Events(Done, "sendmail") = <<>>
              /\ Args(Level(Appended, "INFO")) = SubSeq(call.recipients, 1, i - 1)
              /\ Len(Appended) = i
              /\ Appended[i].level = "ERROR"
              /\ call.result \in {"False", "None"}
              /\ Done[Len(Done)].ev = "quit"

\* the attachment disappears before the second of three recipients is composed
C10_Witness ==
    /\ InLoop
    /\ Len(call.recipients) = 3
    /\ call.attachment_path \notin {<<>>, None}
    /\ call.env.attachment[1] = "exists"
    /\ call.env.attachment[2] = "missing"
    /\ call.env.attachment[3] = "exists"
    /\ Len(Level(Appended, "INFO")) = 1
    /\ call.result = "None"

---------------------------------------------------------------------------
(* The logger called on its own, in any order. *)

LogTexts == {"first", "second"}

LogWarning ==
    /\ Len(log) < MaxLog
    /\ \E text \in LogTexts : SetIO(log_warning(IO, text, <<>>))
    /\ call' = [op |-> "log_warning", before |-> IO]
    /\ UNCHANGED <<trace, config_file, sched>>

LogError ==
    /\ Len(log) < MaxLog
    /\ \E text \in LogTexts : SetIO(log_error(IO, text, <<>>))
    /\ call' = [op |-> "log_error", before |-> IO]
    /\ UNCHANGED <<trace, config_file, sched>>

LogSuccess ==
    /\ Len(log) < MaxLog
    /\ \E text \in LogTexts : SetIO(log_success(IO, text, <<>>))
    /\ call' = [op |-> "log_success", before |-> IO]
    /\ UNCHANGED <<trace, config_file, sched>>

NextLogger == LogWarning \/ LogError \/ LogSuccess

SpecLogger == Init /\ [][NextLogger]_vars

Printed(notice) == Cardinality({i \in 1..Len(console) : console[i] = notice})

LoggerLatched ==
    /\ Printed(WarningNotice) = (IF Level(log, "WARNING") = <<>> THEN 0 ELSE 1)
    /\ Printed(ErrorNotice) = (IF Level(log, "ERROR") = <<>> THEN 0 ELSE 1)
    /\ Len(console) = Printed(WarningNotice) + Printed(ErrorNotice)
    /\ warning_flag <=> Level(log, "WARNING") = <<>>
    /\ error_flag <=> Level(log, "ERROR") = <<>>

LoggerStep ==
    /\ ~warning_flag => ~warning_flag'
    /\ ~error_flag => ~error_flag'
    /\ Len(log') = Len(log) + 1
    /\ SubSeq(log', 1, Len(log)) = log
    /\ log'[Len(log')].level =
          (IF call'.op = "log_warning" THEN "WARNING"
           ELSE IF call'.op = "log_error" THEN "ERROR" ELSE "INFO")
    /\ console' = (IF call'.op = "log_warning" /\ warning_flag
                   THEN Append(console, WarningNotice)
                   ELSE IF call'.op = "log_error" /\ error_flag
                   THEN Append(console, ErrorNotice)
                   ELSE console)

\* C7: over any sequence of log_warning, log_error and log_success calls at
\* most one notice is printed per severity: the first log_warning and the
\* first log_error print theirs and clear their latch, later calls print
\* nothing, a latch is never set back, and every call appends its record.
C7_OneNoticePerSeverity == []LoggerLatched /\ [][LoggerStep]_vars

\* two warnings and two errors logged, one notice of each printed
C7_Witness ==
    /\ Len(Level(log, "WARNING")) = 2
    /\ Len(Level(log, "ERROR")) = 2
    /\ console = <<ErrorNotice, WarningNotice>>
    /\ ~warning_flag /\ ~error_flag

---------------------------------------------------------------------------
(* The configuration store.  A dict is a function from its keys; the JSON   *)
(* text of the file is the sequence of its <<key, value>> pairs.            *)

EmptyDict == [k \in {} |-> ""]

Put(config, key, value) ==
    [k \in DOMAIN config \cup {key} |-> IF k = key THEN value ELSE config[k]]

\* not config.get(key)
Unset(config, key) == key \notin DOMAIN config \/ config[key] = ""

required_fields == <<"email_address", "recipients_file", "subject", "message">>

config_keys ==
    <<"email_address", "recipients_file", "subject", "message", "attachment_path">>

\* a key a configuration file may hold besides those of config_keys
OtherKey == "signature"

KeyOrder == Append(config_keys, OtherKey)

\* json.dump(config): the pairs of the object
json_dump(config) ==
    LET present == SelectSeq(KeyOrder, LAMBDA k : k \in DOMAIN config)
    IN  [i \in 1..Len(present) |-> <<present[i], config[present[i]]>>]

\* json.load(text): the object of the pairs, the last pair of a key winning
json_load(text) ==
    [k \in {text[i][1] : i \in 1..Len(text)} |->
        text[Max({i \in 1..Len(text) : text[i][1] = k})][2]]

\* read_config_file: [raised, config]
read_config_file(file) ==
    IF file.corrupt THEN [raised |-> "JSONDecodeError", config |-> EmptyDict]
    ELSE [raised |-> "", config |-> json_load(file.text)]

\* write_config_file: [raised, file]; open(CONFIG_FILE, 'w') creates the file,
\* and raises, leaving it as it is, when it exists and may not be written
write_config_file(file, config) ==
    IF file.exists /\ ~file.writable
    THEN [raised |-> "PermissionError", file |-> file]
    ELSE [raised |-> "",
          file |-> [exists |-> TRUE, writable |-> TRUE, corrupt |-> FALSE,
                    text |-> json_dump(config)]]

RECURSIVE prompt_missing_absent_only(_, _, _, _)
\* prompt_missing asking only for the keys the dict does not hold
prompt_missing_absent_only(i, config, answers, prompted) ==
    IF i > Len(config_keys) THEN [config |-> config, prompted |-> prompted]
    ELSE LET key == config_keys[i]
         IN  IF key \notin DOMAIN config
             THEN prompt_missing_absent_only(i + 1, Put(config, key, answers[key]),
                                             answers, Append(prompted, key))
             ELSE prompt_missing_absent_only(i + 1, config, answers, prompted)

RECURSIVE prompt_missing(_, _, _, _)
\* the for loop of setup_config from the i-th key on; answers[key] is what
\* the user types at the prompt of key: [config, prompted |-> the keys asked for]
prompt_missing(i, config, answers, prompted) ==
    IF i > Len(config_keys) THEN [config |-> config, prompted |-> prompted]
    ELSE LET key == config_keys[i]
         IN  IF Unset(config, key)
             THEN prompt_missing(i + 1, Put(config, key, answers[key]), answers,
                                 Append(prompted, key))
             ELSE prompt_missing(i + 1, config, answers, prompted)

\* setup_config: [raised, config, file, prompted]
setup_config(config, file, answers) ==
    LET w1 == write_config_file(file, config)
        p == prompt_missing(1, config, answers, <<>>)
        w2 == write_config_file(w1.file, p.config)
        r == read_config_file(w2.file)
    IN  IF w1.raised # ""
        THEN [raised |-> w1.raised, config |-> EmptyDict, file |-> w1.file,
              prompted |-> <<>>]
        ELSE IF w2.raised # ""
        THEN [raised |-> w2.raised, config |-> EmptyDict, file |-> w2.file,
              prompted |-> p.prompted]
        ELSE [raised |-> r.raised, config |-> r.config, file |-> w2.file,
              prompted |-> p.prompted]

\* load_config: [config |-> the dict returned, file, io, prompted, raised]
load_config(file, answers, io) ==
    LET read == read_config_file(file)
        missing_fields == SelectSeq(required_fields, LAMBDA f : f \notin DOMAIN read.config)
        s == IF ~file.exists THEN setup_config(EmptyDict, file, answers)
             ELSE IF read.raised # ""
             THEN [raised |-> read.raised, config |-> EmptyDict, file |-> file,
                   prompted |-> <<>>]
             ELSE IF missing_fields # <<>> THEN setup_config(read.config, file, answers)
             ELSE [raised |-> "", config |-> read.config, file |-> file,
                   prompted |-> <<>>]
    IN  IF s.raised = "JSONDecodeError"
        THEN [config |-> EmptyDict, file |-> s.file, prompted |-> s.prompted,
              raised |-> s.raised,
              io |-> log_error(io, "Error decoding JSON in configuration file", <<>>)]
        ELSE IF s.raised # ""
        THEN [config |-> EmptyDict, file |-> s.file, prompted |-> s.prompted,
              raised |-> s.raised, io |-> log_error(io, s.raised, <<>>)]
        ELSE [config |-> s.config, file |-> s.file, prompted |-> s.prompted,
              raised |-> "", io |-> io]

\* the values a stored key may have, and what the user may type at a prompt
StoredValues == {"", "old"}
TypedValues == {"", "new"}

Dicts == UNION {[ks -> StoredValues] : ks \in SUBSET {KeyOrder[i] : i \in 1..Len(KeyOrder)}}

ConfigFiles ==
    {NoConfigFile}
    \cup {[exists |-> TRUE, writable |-> w, corrupt |-> TRUE, text |-> <<>>] : w \in BOOLEAN}
    \cup {[exists |-> TRUE, writable |-> w, corrupt |-> FALSE, text |-> json_dump(d)] :
             w \in BOOLEAN, d \in Dicts}

InitConfig ==
    /\ warning_flag = TRUE
    /\ error_flag = TRUE
    /\ log = <<>>
    /\ console = <<>>
    /\ trace = <<>>
    /\ config_file \in ConfigFiles
    /\ call = NoCall
    /\ sched = NotScheduled

LoadConfig ==
    /\ call.op = "none"
    /\ \E answers \in [{config_keys[i] : i \in 1..Len(config_keys)} -> TypedValues] :
          LET r == load_config(config_file, answers, IO)
              asked == {r.prompted[i] : i \in 1..Len(r.prompted)}
          IN  /\ SetIO(r.io)
              /\ config_file' = r.file
              /\ call' = [op |-> "load_config", file |-> config_file, before |-> IO,
                          typed |-> [k \in asked |-> answers[k]],
                          prompted |-> r.prompted, raised |-> r.raised,
                          config |-> r.config]
    /\ UNCHANGED <<trace, sched>>

NextConfig == LoadConfig

SpecConfig == InitConfig /\ [][NextConfig]_vars

\* the persisted configuration held every required key but subject
MissingOnlySubject ==
    /\ call.op = "load_config"
    /\ call.file.exists /\ ~call.file.corrupt
    /\ LET stored == json_load(call.file.text)
       IN  \A i \in 1..Len(required_fields) :
              required_fields[i] \in DOMAIN stored <=> required_fields[i] # "subject"

\* C6 as stated: with only subject missing, the bootstrap prompts for subject
\* and for no other key, and persists and returns the previous configuration,
\* every value unchanged, plus the subject entered.
C6_PromptsOnlyForSubject ==
    (MissingOnlySubject /\ call.file.writable)
    => LET stored == json_load(call.file.text)
       IN  /\ call.prompted = <<"subject">>
           /\ call.config = Put(stored, "subject", call.typed["subject"])
           /\ read_config_file(config_file).config = call.config

\* C6 as amended: with only subject missing, the bootstrap prompts, in the
\* order of config_keys, for subject and for every other key of config_keys
\* (attachment_path included) that is absent or holds an empty value, and for
\* no key holding a non-empty value; if the file can be written it persists
\* and returns a configuration holding every previously present key, the
\* non-empty values unchanged, and the value entered for each key prompted;
\* if the file cannot be written it prompts for nothing, leaves the file as it
\* is, logs one error and returns an empty configuration.
C6_PromptsForEveryUnsetKey ==
    MissingOnlySubject
    => LET stored == json_load(call.file.text)
           unset == SelectSeq(config_keys,
                              LAMBDA k : k \notin DOMAIN stored \/ stored[k] = "")
       IN  IF call.file.writable
           THEN /\ call.prompted = unset
                /\ \E i \in 1..Len(call.prompted) : call.prompted[i] = "subject"
                /\ call.raised = ""
                /\ DOMAIN call.config
                      = DOMAIN stored \cup {config_keys[i] : i \in 1..Len(config_keys)}
                /\ \A k \in DOMAIN stored : stored[k] # "" => call.config[k] = stored[k]
                /\ \A k \in DOMAIN call.typed : call.config[k] = call.typed[k]
                /\ \A k \in DOMAIN call.config : k \in DOMAIN stored \/ k \in DOMAIN call.typed
                /\ config_file.exists /\ ~config_file.corrupt
                /\ json_load(config_file.text) = call.config
                /\ Appended = <<>>
           ELSE /\ call.prompted = <<>>
                /\ config_file = call.file
                /\ call.config = EmptyDict
                /\ Len(Appended) = 1 /\ Appended[1].level = "ERROR"

\* a stored configuration without subject and without attachment_path, with
\* an empty message and a key of its own: three prompts
C6_Witness ==
    /\ MissingOnlySubject
    /\ call.file.writable
    /\ LET stored == json_load(call.file.text)
       IN  /\ DOMAIN stored = {"email_address", "recipients_file", "message", OtherKey}
           /\ stored["message"] = ""
           /\ stored["email_address"] = "old"
    /\ call.prompted = <<"subject", "message", "attachment_path">>
    /\ call.typed["subject"] = "new"
    /\ call.typed["attachment_path"] = ""
    /\ call.config["subject"] = "new"
    /\ call.config[OtherKey] = "old"

---------------------------------------------------------------------------
(* The end-to-end operation. *)

SuccessLine == "Successfully sent emails."
FailureLine == "Failed to send emails."

\* main: [none |-> get_recipients returned None, result |-> what send_email
\* returned, "not called" when it was not called, io, trace]
main(email_address, email_password, recipients_file, subject, message, attachment_path, env, io, tr) ==
    LET g == get_recipients(recipients_file, io)
        s == send_email(email_address, email_password, g.list, subject, message,
                        attachment_path, env, g.io, tr)
    IN  IF g.none
        THEN [none |-> TRUE, result |-> "not called", io |-> g.io, trace |-> tr]
        ELSE [none |-> FALSE, result |-> s.result, trace |-> s.trace,
              io |-> [s.io EXCEPT !.console =
                         Append(@, IF s.result = "True" THEN SuccessLine
                                   ELSE FailureLine)]]

\* the recipients files main is run on: absent, all invalid, the three-line
\* file "a@test.com", "bad-address", "b@test.co", and a single valid line
MainFiles ==
    { NoFile,
      TextFile(<< <<"b", "a", "d", "-", "a", "d", "d", "r", "e", "s", "s">> >>),
      TextFile(<< <<"a", "@", "t", "e", "s", "t", ".", "c", "o", "m">>,
                  <<"b", "a", "d", "-", "a", "d", "d", "r", "e", "s", "s">>,
                  <<" ", "b", "@", "t", "e", "s", "t", ".", "c", "o", "\n">> >>),
      TextFile(<< <<"a", "@", "t", "e", "s", "t", ".", "c", "o", "m">> >>) }

Runs == IF call.op = "main" THEN call.run ELSE 0

Main ==
    /\ Runs < MaxRuns
    /\ \E recipients_file \in MainFiles :
       \E email_address \in Senders \ {<<>>} :
       \E attachment_path \in AttachmentPaths :
       \E env \in Envs(MaxLines) :
          LET r == main(email_address, "secret", recipients_file, "subject", "message",
                        attachment_path, env, IO, trace)
          IN  /\ SetIO(r.io)
              /\ trace' = r.trace
              /\ call' = [op |-> "main", run |-> Runs + 1, file |-> recipients_file,
                          sender |-> email_address, attachment_path |-> attachment_path,
                          before |-> IO, trace_before |-> trace,
                          none |-> r.none, result |-> r.result]
    /\ UNCHANGED <<config_file, sched>>

NextMain == Main

SpecMain == Init /\ [][NextMain]_vars

\* what a call printed
PrintedNow == SubSeq(console, Len(call.before.console) + 1, Len(console))

Outcomes(lines) == SelectSeq(lines, LAMBDA l : l \in {SuccessLine, FailureLine})

\* C9: every invocation of main prints exactly one of the two outcome lines:
\* the success line when the run succeeded, the failure line when it failed
\* for any reason, a failure of get_recipients included.
C9_OneOutcomeLinePerRun ==
    call.op = "main"
    => Outcomes(PrintedNow) = (IF call.result = "True" THEN <<SuccessLine>>
                               ELSE <<FailureLine>>)

---------------------------------------------------------------------------
(* The daily trigger.  The clock is followed minute by minute: one turn of  *)
(* the loop stands for the polls of one minute.                             *)

DayMinutes == 1440
\* at("09:00")
AtMinute == 540
\* the positional parameters of main without a default, and the arguments
\* that do(main) binds to the job
MainRequiredArgs == 5
JobArgs == 0

\* schedule's next run of a daily job created at <<day, minute>>: today at the
\* time given if that is still ahead, else tomorrow
next_run_after(day, minute) == IF AtMinute > minute THEN <<day, AtMinute>> ELSE <<day + 1, AtMinute>>

Due(s) == s.day > s.next_run[1] \/ (s.day = s.next_run[1] /\ s.minute >= s.next_run[2])

\* my_scheduled_task is called at some minute of day 0 and registers the job
StartTrigger ==
    /\ sched.pc = "not_started"
    /\ \E minute \in 0..(DayMinutes - 1) :
          sched' = [pc |-> "polling", day |-> 0, minute |-> minute,
                    next_run |-> next_run_after(0, minute), ended_by |-> "none"]
    /\ call' = [op |-> "my_scheduled_task"]
    /\ UNCHANGED <<warning_flag, error_flag, log, console, trace, config_file>>

\* one turn of the loop: schedule.run_pending(), then time.sleep(1)
Poll ==
    /\ sched.pc = "polling"
    /\ sched.day <= MaxDays
    /\ IF Due(sched)
       THEN IF JobArgs < MainRequiredArgs
            THEN \* main() raises TypeError, which no handler of the loop catches
                 /\ sched' = [sched EXCEPT !.pc = "ended", !.ended_by = "TypeError"]
                 /\ call' = [op |-> "job"]
                 /\ UNCHANGED <<warning_flag, error_flag, log, console, trace>>
            ELSE \E recipients_file \in MainFiles :
                 \E email_address \in Senders \ {<<>>} :
                 \E env \in Envs(MaxLines) :
                    LET r == main(email_address, "secret", recipients_file,
                                  "subject", "message", <<>>, env, IO, trace)
                    IN  /\ SetIO(r.io)
                        /\ trace' = r.trace
                        /\ call' = [op |-> "job"]
                        /\ sched' = [sched EXCEPT
                                        !.next_run = <<sched.next_run[1] + 1, AtMinute>>]
       ELSE /\ sched' = [sched EXCEPT
                            !.minute = (sched.minute + 1) % DayMinutes,
                            !.day = IF sched.minute + 1 = DayMinutes THEN @ + 1 ELSE @]
            /\ call' = [op |-> "sleep"]
            /\ UNCHANGED <<warning_flag, error_flag, log, console, trace>>
    /\ UNCHANGED config_file

\* Ctrl+C while the loop runs: the handler prints and the function returns
Interrupt ==
    /\ sched.pc = "polling"
    /\ sched' = [sched EXCEPT !.pc = "ended", !.ended_by = "KeyboardInterrupt"]
    /\ console' = Append(console, "Script exiting...")
    /\ call' = [op |-> "interrupt"]
    /\ UNCHANGED <<warning_flag, error_flag, log, trace, config_file>>

NextTrigger == StartTrigger \/ Poll \/ Interrupt

SpecTrigger == Init /\ [][NextTrigger]_vars

\* C8: the trigger's loop keeps running across the daily firings of the job:
\* it ends only when an interrupt arrives, which it handles by leaving
\* cleanly; a firing never ends the loop or leaves it as an unhandled error.
C8_LoopEndsOnlyOnInterrupt ==
    sched.pc = "ended"
    => /\ sched.ended_by = "KeyboardInterrupt"
       /\ console[Len(console)] = "Script exiting..."

=============================================================================
